---- MODULE Spec2Model ----
(***************************************************************************)
(* Model of the Bedrock demo adapters of gen-ai-workshop:                  *)
(*   text_examples/gen_text.py               (converse and text tasks)     *)
(*   image_examples/image_gen_st.py          (text to image)               *)
(*   image_examples/image_to_image_st.py     (image variation)             *)
(*   image_examples/image_understanding_st.py (captioning, validation)     *)
(*                                                                         *)
(* Every adapter call is request-scoped: the caller picks an operation and *)
(* its arguments, the remote endpoint answers (or fails) in one of a small *)
(* set of ways, and the call leaves behind                                 *)
(*   result   - what the caller gets: a returned value, None, or a raised  *)
(*              exception;                                                 *)
(*   sent     - the requests handed to the remote endpoint during the call;*)
(*   reported - the error reports (st.error / print) made during the call. *)
(*                                                                         *)
(* Python values: a dict is a function on its keys (EmptyDict has none),   *)
(* a list is a sequence, str is a string, None is the result NoneResult.   *)
(* Decimal parameters (cfg scale, similarity strength, temperature) are    *)
(* kept in tenths: 0.7 is 7, 8.0 is 80.  Base64 text is a sequence of      *)
(* alphabet indices 0..63 with Pad for "=" and Junk for a character that   *)
(* is not in the alphabet.                                                 *)
(***************************************************************************)
EXTENDS Integers, Sequences, FiniteSets, TLC

VARIABLES op, args, result, sent, reported

vars == <<op, args, result, sent, reported>>

(***************************************************************************)
(* Bounds of the model.                                                    *)
(***************************************************************************)
\* longest content list a response carries
MaxParts == 2
\* longest images list a response carries
MaxImages == 2
\* how far past MAX_IMAGE_SIZE an uploaded file may be
MaxOver == 2
\* most pixel bytes an in-memory image of the round trip holds
MaxPixels == 3

(***************************************************************************)
(* Python helpers.                                                         *)
(***************************************************************************)
EmptyDict == <<>>

\* dict.get(key, default)
Get(d, key, default) == IF key \in DOMAIN d THEN d[key] ELSE default

HasKey(d, key) == key \in DOMAIN d

Return(v) == [kind |-> "return", value |-> v]
NoneResult == [kind |-> "none"]
Raise(e) == [kind |-> "raise", exc |-> e]

\* what one call leaves behind
Outcome(r, s, rep) == [result |-> r, sent |-> s, reported |-> rep]

\* the remote endpoint's possible behaviours on one invocation
RemoteRaises == {Raise("ClientError"), Raise("ConnectionError")}

\* `except ClientError` matches only botocore's ClientError
IsClientError(e) == e = "ClientError"

(***************************************************************************)
(* text_examples/gen_text.py                                               *)
(***************************************************************************)
\* DEFAULT_TEMPERATURE = 0.5, in tenths
DEFAULT_TEMPERATURE == 5

model_ids ==
    { "us.anthropic.claude-3-5-sonnet-20241022-v2:0",
      "us.anthropic.claude-3-5-haiku-20241022-v1:0",
      "meta.llama3-1-70b-instruct-v1:0",
      "meta.llama3-1-405b-instruct-v1:0",
      "meta.llama3-1-8b-instruct-v1:0",
      "mistral.mistral-large-2402-v1:0",
      "us.amazon.nova-pro-v1:0",
      "us.amazon.nova-lite-v1:0",
      "us.amazon.nova-micro-v1:0" }

\* raises ValueError for an identifier outside model_ids, else returns None
validate_model_id(model_id) ==
    IF model_id \notin model_ids THEN Raise("ValueError") ELSE NoneResult

ConverseRequest(model_id, system_prompts, messages) ==
    [api |-> "converse", modelId |-> model_id, messages |-> messages,
     system |-> system_prompts,
     inferenceConfig |-> [temperature |-> DEFAULT_TEMPERATURE]]

\* response.get("output", {}).get("message", {}).get("content", [{}])
ConverseContent(response) ==
    Get(Get(Get(response, "output", EmptyDict), "message", EmptyDict),
        "content", <<EmptyDict>>)

\* The body of the try block after the remote call returned `response`:
\* [0] on an empty list raises IndexError.
ConverseExtract(response) ==
    LET content == ConverseContent(response)
    IN  IF Len(content) = 0 THEN Raise("IndexError")
        ELSE Return(Get(content[1], "text", ""))

\* generate_conversation: the remote call is the first statement that can
\* fail; `except Exception` prints the error and re-raises it.
generate_conversation(model_id, system_prompts, messages, remote) ==
    LET req == ConverseRequest(model_id, system_prompts, messages)
        r == IF remote.kind = "raise" THEN remote
             ELSE ConverseExtract(remote.value)
    IN  IF r.kind = "raise"
        THEN Outcome(r, <<req>>, <<"Error generating conversation">>)
        ELSE Outcome(r, <<req>>, <<>>)

UserMessage(text) == <<[role |-> "user", content |-> <<[text |-> text]>>]>>

summarize_text(text, remote) ==
    IF text = "" THEN Outcome(Return(""), <<>>, <<>>)
    ELSE LET model_id == "us.amazon.nova-pro-v1:0"
             v == validate_model_id(model_id)
         IN  IF v.kind = "raise" THEN Outcome(v, <<>>, <<>>)
             ELSE generate_conversation(model_id,
                    <<[text |-> "You are an app that creates summaries of text in 50 words or less."]>>,
                    UserMessage("Summarize the following text: " \o text \o "."),
                    remote)

sentiment_analysis(text, remote) ==
    IF text = "" THEN Outcome(Return("{}"), <<>>, <<>>)
    ELSE LET model_id == "us.anthropic.claude-3-5-sonnet-20241022-v2:0"
             v == validate_model_id(model_id)
         IN  IF v.kind = "raise" THEN Outcome(v, <<>>, <<>>)
             ELSE generate_conversation(model_id,
                    <<[text |-> "You are a bot that takes text and returns a JSON object of sentiment analysis."]>>,
                    UserMessage(text),
                    remote)

QA_INVALID == "Invalid input: Question and text are required."

\* perform_qa guarding with `and` in place of `or`
perform_qa_and(question, text, remote) ==
    IF question = "" /\ text = "" THEN Outcome(Return(QA_INVALID), <<>>, <<>>)
    ELSE generate_conversation("mistral.mistral-large-2402-v1:0",
            <<[text |-> "Given the following text, answer the question. If the answer is not in the text, 'say you do not know'. Here is the text: " \o text]>>,
            UserMessage(question),
            remote)

perform_qa(question, text, remote) ==
    IF question = "" \/ text = "" THEN Outcome(Return(QA_INVALID), <<>>, <<>>)
    ELSE LET model_id == "mistral.mistral-large-2402-v1:0"
             v == validate_model_id(model_id)
         IN  IF v.kind = "raise" THEN Outcome(v, <<>>, <<>>)
             ELSE generate_conversation(model_id,
                    <<[text |-> "Given the following text, answer the question. If the answer is not in the text, 'say you do not know'. Here is the text: " \o text]>>,
                    UserMessage(question),
                    remote)

(***************************************************************************)
(* base64 and PIL, as the adapters use them.                               *)
(***************************************************************************)
Pad == 64
Junk == 65

\* base64.b64encode(bytes).decode(): three bytes become four alphabet
\* indices, a short last group is padded with "="
RECURSIVE b64encode(_)
b64encode(b) ==
    IF Len(b) = 0 THEN <<>>
    ELSE IF Len(b) = 1
         THEN <<b[1] \div 4, (b[1] % 4) * 16, Pad, Pad>>
    ELSE IF Len(b) = 2
         THEN <<b[1] \div 4, (b[1] % 4) * 16 + b[2] \div 16, (b[2] % 16) * 4, Pad>>
    ELSE <<b[1] \div 4, (b[1] % 4) * 16 + b[2] \div 16,
           (b[2] % 16) * 4 + b[3] \div 64, b[3] % 64>>
         \o b64encode(SubSeq(b, 4, Len(b)))

\* base64.b64decode(s) with validate=False: characters outside the alphabet
\* are skipped, "=" ends the data once a group holds two digits or more, and
\* an unfinished group is binascii.Error
RECURSIVE a2b_base64(_, _, _, _, _, _)
a2b_base64(s, i, quad_pos, leftchar, pads, out) ==
    IF i > Len(s)
    THEN IF quad_pos # 0 THEN Raise("binascii.Error") ELSE Return(out)
    ELSE LET c == s[i]
         IN  IF c = Pad
             THEN IF quad_pos >= 2 /\ quad_pos + pads + 1 >= 4
                  THEN Return(out)
                  ELSE a2b_base64(s, i + 1, quad_pos, leftchar,
                                  IF quad_pos >= 2 THEN pads + 1 ELSE pads, out)
             ELSE IF c >= 64
             THEN a2b_base64(s, i + 1, quad_pos, leftchar, pads, out)
             ELSE IF quad_pos = 0
             THEN a2b_base64(s, i + 1, 1, c, 0, out)
             ELSE IF quad_pos = 1
             THEN a2b_base64(s, i + 1, 2, c % 16, 0,
                             Append(out, leftchar * 4 + c \div 16))
             ELSE IF quad_pos = 2
             THEN a2b_base64(s, i + 1, 3, c % 4, 0,
                             Append(out, leftchar * 16 + c \div 4))
             ELSE a2b_base64(s, i + 1, 0, 0, 0, Append(out, leftchar * 64 + c))

b64decode(s) == a2b_base64(s, 1, 0, 0, 0, <<>>)

\* An image file is its container's leading byte followed by the pixel data;
\* Image.open identifies the container from the leading byte.
PNG_MAGIC == 137
JPEG_MAGIC == 255
GIF_MAGIC == 71
WEBP_MAGIC == 82

KnownMagic == {PNG_MAGIC, JPEG_MAGIC, GIF_MAGIC, WEBP_MAGIC}

FormatOfMagic(m) ==
    CASE m = PNG_MAGIC -> "PNG"
      [] m = JPEG_MAGIC -> "JPEG"
      [] m = GIF_MAGIC -> "GIF"
      [] m = WEBP_MAGIC -> "WEBP"

\* PIL.Image.open on a byte buffer
ImageOpen(bytes) ==
    IF Len(bytes) >= 1 /\ bytes[1] \in KnownMagic
    THEN Return([format |-> FormatOfMagic(bytes[1]), pixels |-> Tail(bytes)])
    ELSE Raise("UnidentifiedImageError")

\* img.save(buffer, format="PNG"); buffer.getvalue()
SavePng(img) == <<PNG_MAGIC>> \o img.pixels

\* str.upper() on the format names that occur
Upper(s) ==
    CASE s = "png" -> "PNG"
      [] s = "jpeg" -> "JPEG"
      [] s = "jpg" -> "JPG"
      [] s = "gif" -> "GIF"
      [] s = "webp" -> "WEBP"
      [] OTHER -> s

(***************************************************************************)
(* The endpoint behind invoke_model.                                       *)
(***************************************************************************)
\* get_bedrock_client() itself failing, before anything is sent
NoClient == [kind |-> "noclient", exc |-> "NoRegionError"]

\* the text of a response body: JSON text of a dict, or not JSON at all
JsonText(d) == [json |-> TRUE, value |-> d]
NotJson == [json |-> FALSE]

json_loads(t) == IF t.json THEN Return(t.value) ELSE Raise("JSONDecodeError")

InvokeRequest(model_id, body) ==
    [api |-> "invoke_model", modelId |-> model_id, body |-> body,
     accept |-> "application/json", contentType |-> "application/json"]

\* json.loads(response.get("body").read())
ResponseBody(response) ==
    IF ~HasKey(response, "body") THEN Raise("AttributeError")
    ELSE json_loads(response["body"])

\* response_body.get("images")[0]
FirstImage(response) ==
    LET rb == ResponseBody(response)
    IN  IF rb.kind = "raise" THEN rb
        ELSE IF ~HasKey(rb.value, "images") THEN Raise("TypeError")
        ELSE IF Len(rb.value["images"]) = 0 THEN Raise("IndexError")
        ELSE Return(rb.value["images"][1])

\* What the try block of an invoke_model adapter comes to: the exception it
\* ends with or the value `extract` finds, and the requests it sent.
Invoke(req, remote, extracted) ==
    IF remote.kind = "noclient" THEN [r |-> Raise(remote.exc), sent |-> <<>>]
    ELSE IF remote.kind = "raise" THEN [r |-> remote, sent |-> <<req>>]
    ELSE [r |-> extracted, sent |-> <<req>>]

(***************************************************************************)
(* image_examples/image_gen_st.py                                          *)
(***************************************************************************)
NOVA_CANVAS == "amazon.nova-canvas-v1:0"

\* the payload with height and width exchanged
TextImageBody_swapped(text, height, width, cfg_scale, seed) ==
    [taskType |-> "TEXT_IMAGE",
     textToImageParams |-> [text |-> text],
     imageGenerationConfig |->
        [numberOfImages |-> 1, height |-> width, width |-> height,
         cfgScale |-> cfg_scale, seed |-> seed]]

TextImageBody(text, height, width, cfg_scale, seed) ==
    [taskType |-> "TEXT_IMAGE",
     textToImageParams |-> [text |-> text],
     imageGenerationConfig |->
        [numberOfImages |-> 1, height |-> height, width |-> width,
         cfgScale |-> cfg_scale, seed |-> seed]]

\* generate_image_nova with `except ClientError` as its only handler
generate_image_nova_client_only(text, height, width, cfg_scale, seed, remote) ==
    LET req == InvokeRequest(NOVA_CANVAS, TextImageBody(text, height, width, cfg_scale, seed))
        t == Invoke(req, remote,
                    IF remote.kind = "return" THEN FirstImage(remote.value) ELSE NoneResult)
    IN  IF t.r.kind = "raise"
        THEN IF IsClientError(t.r.exc)
             THEN Outcome(NoneResult, t.sent, <<"AWS API Error">>)
             ELSE Outcome(t.r, t.sent, <<>>)
        ELSE Outcome(t.r, t.sent, <<>>)

\* generate_image_nova with `except Exception` as its only handler
generate_image_nova_one_handler(text, height, width, cfg_scale, seed, remote) ==
    LET req == InvokeRequest(NOVA_CANVAS, TextImageBody(text, height, width, cfg_scale, seed))
        t == Invoke(req, remote,
                    IF remote.kind = "return" THEN FirstImage(remote.value) ELSE NoneResult)
    IN  IF t.r.kind = "raise"
        THEN Outcome(NoneResult, t.sent, <<"Unexpected error">>)
        ELSE Outcome(t.r, t.sent, <<>>)

generate_image_nova(text, height, width, cfg_scale, seed, remote) ==
    LET req == InvokeRequest(NOVA_CANVAS, TextImageBody(text, height, width, cfg_scale, seed))
        t == Invoke(req, remote,
                    IF remote.kind = "return" THEN FirstImage(remote.value) ELSE NoneResult)
    IN  IF t.r.kind = "raise"
        THEN IF IsClientError(t.r.exc)
             THEN Outcome(NoneResult, t.sent, <<"AWS API Error">>)
             ELSE Outcome(NoneResult, t.sent, <<"Unexpected error">>)
        ELSE Outcome(t.r, t.sent, <<>>)

\* base64_to_image: any decoding failure becomes ValueError
base64_to_image(base64_string) ==
    LET d == b64decode(base64_string)
    IN  IF d.kind = "raise" THEN Raise("ValueError") ELSE d

(***************************************************************************)
(* image_examples/image_to_image_st.py                                     *)
(***************************************************************************)
\* the files on disk that a path argument can name
FileSystem ==
    [p \in {"ref.png", "dot.png", "photo.jpg", "icon.png"} |->
        CASE p = "ref.png" -> <<PNG_MAGIC, 9>>
          [] p = "dot.png" -> <<PNG_MAGIC>>
          [] p = "photo.jpg" -> <<JPEG_MAGIC, 3, 0>>
          [] p = "icon.png" -> <<PNG_MAGIC, 7, 8, 255>>]

\* img is a path (str), an in-memory PIL image, or something else
\* image_to_base64 dropping the "=" padding of the encoded text
image_to_base64_unpadded(img) ==
    LET Strip(t) == SelectSeq(t, LAMBDA c : c # Pad)
    IN  IF img.type = "str"
        THEN IF img.path \in DOMAIN FileSystem
             THEN Return(Strip(b64encode(FileSystem[img.path])))
             ELSE Raise("FileNotFoundError")
        ELSE IF img.type = "pil"
        THEN Return(Strip(b64encode(SavePng(img.image))))
        ELSE Raise("ValueError")

image_to_base64(img) ==
    IF img.type = "str"
    THEN IF img.path \in DOMAIN FileSystem
         THEN Return(b64encode(FileSystem[img.path]))
         ELSE Raise("FileNotFoundError")
    ELSE IF img.type = "pil"
    THEN Return(b64encode(SavePng(img.image)))
    ELSE Raise("ValueError")

base64_to_pil(base64_string) ==
    LET d == b64decode(base64_string)
        im == IF d.kind = "raise" THEN d ELSE ImageOpen(d.value)
    IN  IF im.kind = "raise"
        THEN [r |-> NoneResult, reported |-> <<"Error converting base64 to image">>]
        ELSE [r |-> im, reported |-> <<>>]

ImageVariationBody(change_prompt, init_image_b64, similarity_strength) ==
    [taskType |-> "IMAGE_VARIATION",
     imageVariationParams |->
        [text |-> change_prompt, images |-> <<init_image_b64>>,
         similarityStrength |-> similarity_strength],
     imageGenerationConfig |->
        [numberOfImages |-> 1, height |-> 512, width |-> 512, cfgScale |-> 80]]

\* nova_update_image invoking the endpoint a second time after a failure
nova_update_image_retry(change_prompt, init_image_b64, similarity_strength, remote) ==
    LET req == InvokeRequest(NOVA_CANVAS,
                   ImageVariationBody(change_prompt, init_image_b64, similarity_strength))
        t == Invoke(req, remote,
                    IF remote.kind = "return" THEN FirstImage(remote.value) ELSE NoneResult)
    IN  IF t.r.kind = "raise"
        THEN Outcome(NoneResult, t.sent \o t.sent, <<"Error generating image">>)
        ELSE Outcome(t.r, t.sent, <<>>)

nova_update_image(change_prompt, init_image_b64, similarity_strength, remote) ==
    LET req == InvokeRequest(NOVA_CANVAS,
                   ImageVariationBody(change_prompt, init_image_b64, similarity_strength))
        t == Invoke(req, remote,
                    IF remote.kind = "return" THEN FirstImage(remote.value) ELSE NoneResult)
    IN  IF t.r.kind = "raise"
        THEN Outcome(NoneResult, t.sent, <<"Error generating image">>)
        ELSE Outcome(t.r, t.sent, <<>>)

\* `if updated_image_b64:` is false for None and for the empty string
Truthy(r) == r.kind = "return" /\ r.value # <<>>

update_image_pipeline(user_image, change_prompt, model, similarity_strength, remote) ==
    LET b == image_to_base64(user_image)
    IN  IF b.kind = "raise"
        THEN Outcome(NoneResult, <<>>, <<"Error in image pipeline">>)
        ELSE IF model # "Amazon Nova" THEN Outcome(NoneResult, <<>>, <<>>)
        ELSE LET u == nova_update_image(change_prompt, b.value, similarity_strength, remote)
             IN  IF ~Truthy(u.result) THEN Outcome(NoneResult, u.sent, u.reported)
                 ELSE LET p == base64_to_pil(u.result.value)
                      IN  Outcome(p.r, u.sent, u.reported \o p.reported)

(***************************************************************************)
(* image_examples/image_understanding_st.py                                *)
(***************************************************************************)
SUPPORTED_FORMATS == {"PNG", "JPEG", "JPG"}
MAX_IMAGE_SIZE == 5 * 1024 * 1024

CLAUDE_SONNET == "us.anthropic.claude-3-5-sonnet-20241022-v2:0"
NO_DESCRIPTION == "No description available"
ERROR_DESCRIPTION == "Error generating description"

CaptionBody(base64_string) ==
    [anthropic_version |-> "bedrock-2023-05-31",
     max_tokens |-> 4096,
     messages |->
        <<[role |-> "user",
           content |->
              <<[type |-> "image",
                 source |-> [type |-> "base64", media_type |-> "image/png",
                             data |-> base64_string]],
                [type |-> "text", text |-> "Provide a caption for this image"]>>]>>]

\* response_body.get("content")[0].get("text", "No description available")
FirstCaption(response) ==
    LET rb == ResponseBody(response)
    IN  IF rb.kind = "raise" THEN rb
        ELSE IF ~HasKey(rb.value, "content") THEN Raise("TypeError")
        ELSE IF Len(rb.value["content"]) = 0 THEN Raise("IndexError")
        ELSE Return(Get(rb.value["content"][1], "text", NO_DESCRIPTION))

call_claude_sonnet(base64_string, remote) ==
    LET req == InvokeRequest(CLAUDE_SONNET, CaptionBody(base64_string))
        t == Invoke(req, remote,
                    IF remote.kind = "return" THEN FirstCaption(remote.value) ELSE NoneResult)
    IN  IF t.r.kind = "raise"
        THEN IF IsClientError(t.r.exc)
             THEN Outcome(Return(ERROR_DESCRIPTION), t.sent, <<"Error calling Bedrock">>)
             ELSE Outcome(Return(ERROR_DESCRIPTION), t.sent, <<"Unexpected error">>)
        ELSE Outcome(t.r, t.sent, <<>>)

\* pil_to_base64(image) with the default format "PNG"
pil_to_base64(image) == b64encode(SavePng(image))

\* An uploaded file is its byte length and its leading byte.
UploadOpen(image_file) ==
    IF image_file.magic \in KnownMagic
    THEN Return([format |-> FormatOfMagic(image_file.magic), size |-> image_file.size])
    ELSE Raise("UnidentifiedImageError")

\* validate_image without the size check
validate_image_any_size(image_file) ==
    LET img == UploadOpen(image_file)
    IN  IF img.kind = "raise"
        THEN Outcome(NoneResult, <<>>, <<"Error processing image">>)
        ELSE IF Upper(img.value.format) \notin SUPPORTED_FORMATS
        THEN Outcome(NoneResult, <<>>, <<"Unsupported image format">>)
        ELSE Outcome(img, <<>>, <<>>)

\* validate_image without the format check
validate_image_any_format(image_file) ==
    IF image_file.size > MAX_IMAGE_SIZE
    THEN Outcome(NoneResult, <<>>, <<"Image size exceeds limit">>)
    ELSE LET img == UploadOpen(image_file)
         IN  IF img.kind = "raise"
             THEN Outcome(NoneResult, <<>>, <<"Error processing image">>)
             ELSE Outcome(img, <<>>, <<>>)

validate_image(image_file) ==
    LET file_size == image_file.size
    IN  IF file_size > MAX_IMAGE_SIZE
        THEN Outcome(NoneResult, <<>>, <<"Image size exceeds limit">>)
        ELSE LET img == UploadOpen(image_file)
             IN  IF img.kind = "raise"
                 THEN Outcome(NoneResult, <<>>, <<"Error processing image">>)
                 ELSE IF Upper(img.value.format) \notin SUPPORTED_FORMATS
                 THEN Outcome(NoneResult, <<>>, <<"Unsupported image format">>)
                 ELSE Outcome(img, <<>>, <<>>)

(***************************************************************************)
(* The inputs and the remote endpoint's answers the model draws from.      *)
(***************************************************************************)
\* model identifiers a caller may pass: the allow-list and two outside it
ModelIdInputs == model_ids \cup {"amazon.nova-canvas-v1:0", "no-such-model"}

TextInputs == {"", "Bedrock is serverless"}
QuestionInputs == {"", "Can Bedrock support RAG?"}

\* content parts of a converse answer: with and without a text segment
ConverseParts ==
    {[text |-> "first"], [text |-> "second"],
     [image |-> "img"]}

RECURSIVE SeqsUpTo(_, _)
SeqsUpTo(S, n) ==
    IF n = 0 THEN {<<>>}
    ELSE LET shorter == SeqsUpTo(S, n - 1)
         IN  shorter \cup {Append(s, x) : s \in {t \in shorter : Len(t) = n - 1}, x \in S}

Usage == [inputTokens |-> 3, outputTokens |-> 5, totalTokens |-> 8]

\* answers of bedrock_runtime.converse: well-formed ones and every
\* truncation of the output / message / content nesting
ConverseResponses ==
    {[output |-> [message |-> [role |-> "assistant", content |-> c]],
      usage |-> Usage, stopReason |-> "end_turn"] : c \in SeqsUpTo(ConverseParts, MaxParts)}
    \cup {[usage |-> Usage],
          [output |-> EmptyDict],
          [output |-> [message |-> EmptyDict]],
          [output |-> [message |-> [role |-> "assistant"]]]}

ConverseRemote == RemoteRaises \cup {Return(r) : r \in ConverseResponses}

\* base64 strings the image endpoint may hand back: an encoded PNG, an
\* encoding of bytes that are no image, a string that is not base64, ""
B64_PNG == b64encode(<<PNG_MAGIC, 7, 8>>)
B64_NOT_IMAGE == b64encode(<<0, 1>>)
B64_BROKEN == <<19, Junk>>

ImageStrings == {B64_PNG, B64_NOT_IMAGE, B64_BROKEN, <<>>}

ImageBodies ==
    {JsonText([images |-> l]) : l \in SeqsUpTo(ImageStrings, MaxImages)}
    \cup {JsonText([error |-> "content filtered"]), NotJson}

ImageRemote ==
    RemoteRaises \cup {NoClient} \cup {Return(EmptyDict)}
    \cup {Return([body |-> b]) : b \in ImageBodies}

\* content parts of a caption answer: with and without a text segment
CaptionParts ==
    {[type |-> "text", text |-> "A red cube"],
     [type |-> "text", text |-> "On a table"],
     [type |-> "tool_use"]}

CaptionBodies ==
    {JsonText([content |-> c]) : c \in SeqsUpTo(CaptionParts, MaxParts)}
    \cup {JsonText([error |-> "refused"]), NotJson}

CaptionRemote ==
    RemoteRaises \cup {NoClient} \cup {Return(EmptyDict)}
    \cup {Return([body |-> b]) : b \in CaptionBodies}

PromptInputs == {"a red cube"}
\* (height, width): two slider sizes and one size the sliders cannot produce
SizeInputs == {<<512, 512>>, <<1024, 768>>, <<300, 300>>}
\* cfg scale in tenths: 8.0 and 20.0
CfgInputs == {80, 200}
SeedInputs == {0, 7}

PilImages ==
    {[format |-> "PNG", pixels |-> <<7, 8>>],
     [format |-> "JPEG", pixels |-> <<3>>]}

UserImageInputs ==
    {[type |-> "pil", image |-> i] : i \in PilImages}
    \cup {[type |-> "str", path |-> "ref.png"],
          [type |-> "str", path |-> "missing.png"],
          [type |-> "bytes"]}

PipelineModels == {"Amazon Nova", "Titan"}
\* similarity strength in tenths: 0.1, 0.2, 0.7, 1.0, 1.5
SimilarityInputs == {1, 2, 7, 10, 15}

\* pixel bytes of the images the round trip is tried on
PixelBytes == {0, 77, 255}

\* valid image byte sequences: a PNG or JPEG leading byte and pixel data
ImageByteSeqs ==
    {<<m>> \o px : m \in {PNG_MAGIC, JPEG_MAGIC}, px \in SeqsUpTo(PixelBytes, MaxPixels)}

\* encoder inputs of the round trip: every file on disk by its path, and
\* every image opened in memory from a valid byte sequence
RoundTripInputs ==
    {[type |-> "str", path |-> p] : p \in DOMAIN FileSystem}
    \cup {[type |-> "pil", image |-> ImageOpen(b).value] : b \in ImageByteSeqs}

\* the leading byte of a container
MagicOfFormat(f) ==
    CASE f = "PNG" -> PNG_MAGIC
      [] f = "JPEG" -> JPEG_MAGIC
      [] f = "GIF" -> GIF_MAGIC
      [] f = "WEBP" -> WEBP_MAGIC

\* the bytes an encoder input stands for: the file's bytes, or the bytes the
\* in-memory image was opened from
OriginalBytes(img) ==
    IF img.type = "str" THEN FileSystem[img.path]
    ELSE <<MagicOfFormat(img.image.format)>> \o img.image.pixels

FileSizes ==
    {1, MAX_IMAGE_SIZE - 1, MAX_IMAGE_SIZE}
    \cup {MAX_IMAGE_SIZE + k : k \in 1..MaxOver}

\* leading bytes of uploads: the known containers and an unknown one
MagicInputs == KnownMagic \cup {0}

UploadInputs == [size : FileSizes, magic : MagicInputs]

(***************************************************************************)
(* The calls.                                                              *)
(***************************************************************************)
Leave(o) ==
    /\ result' = o.result
    /\ sent' = o.sent
    /\ reported' = o.reported

\* The adapters are called one at a time and keep nothing between calls: a
\* call starts only when the previous call's result has been consumed.
Idle == op = "none"

Init ==
    /\ op = "none"
    /\ args = EmptyDict
    /\ result = NoneResult
    /\ sent = <<>>
    /\ reported = <<>>

Converse ==
    \E m \in ModelIdInputs, t \in TextInputs \ {""}, remote \in ConverseRemote :
        /\ Idle
        /\ op' = "converse"
        /\ args' = [model_id |-> m, text |-> t, remote |-> remote]
        /\ Leave(generate_conversation(m, <<[text |-> "system"]>>, UserMessage(t), remote))

Summarize ==
    \E t \in TextInputs, remote \in ConverseRemote :
        /\ Idle
        /\ op' = "summarize"
        /\ args' = [text |-> t, remote |-> remote]
        /\ Leave(summarize_text(t, remote))

Sentiment ==
    \E t \in TextInputs, remote \in ConverseRemote :
        /\ Idle
        /\ op' = "sentiment"
        /\ args' = [text |-> t, remote |-> remote]
        /\ Leave(sentiment_analysis(t, remote))

AnswerQuestion ==
    \E q \in QuestionInputs, t \in TextInputs, remote \in ConverseRemote :
        /\ Idle
        /\ op' = "qa"
        /\ args' = [question |-> q, text |-> t, remote |-> remote]
        /\ Leave(perform_qa(q, t, remote))

GenerateImage ==
    \E p \in PromptInputs, hw \in SizeInputs, c \in CfgInputs, sd \in SeedInputs,
       remote \in ImageRemote :
        /\ Idle
        /\ op' = "generate_image"
        /\ args' = [text |-> p, height |-> hw[1], width |-> hw[2],
                    cfg_scale |-> c, seed |-> sd, remote |-> remote]
        /\ Leave(generate_image_nova(p, hw[1], hw[2], c, sd, remote))

NovaUpdateImage ==
    \E p \in PromptInputs, b \in {B64_PNG}, sim \in SimilarityInputs,
       remote \in ImageRemote :
        /\ Idle
        /\ op' = "nova_update_image"
        /\ args' = [change_prompt |-> p, init_image_b64 |-> b,
                    similarity_strength |-> sim, remote |-> remote]
        /\ Leave(nova_update_image(p, b, sim, remote))

UpdateImagePipeline ==
    \E u \in UserImageInputs, p \in PromptInputs, m \in PipelineModels,
       sim \in SimilarityInputs, remote \in ImageRemote :
        /\ Idle
        /\ op' = "update_image_pipeline"
        /\ args' = [user_image |-> u, change_prompt |-> p, model |-> m,
                    similarity_strength |-> sim, remote |-> remote]
        /\ Leave(update_image_pipeline(u, p, m, sim, remote))

CaptionImage ==
    \E i \in PilImages, remote \in CaptionRemote :
        /\ Idle
        /\ op' = "caption_image"
        /\ args' = [image |-> i, remote |-> remote]
        /\ Leave(call_claude_sonnet(pil_to_base64(i), remote))

ValidateImage ==
    \E f \in UploadInputs :
        /\ Idle
        /\ op' = "validate_image"
        /\ args' = [image_file |-> f]
        /\ Leave(validate_image(f))

\* encode with image_to_base64, decode the text with base64_to_image; the
\* result is the content of the BytesIO it returns
RoundTripBytes ==
    \E u \in RoundTripInputs :
        /\ Idle
        /\ op' = "round_trip_bytes"
        /\ args' = [img |-> u, original |-> OriginalBytes(u)]
        /\ LET e == image_to_base64(u)
           IN  result' = IF e.kind = "raise" THEN e ELSE base64_to_image(e.value)
        /\ sent' = <<>>
        /\ reported' = <<>>

\* encode with image_to_base64, decode the text with base64_to_pil
RoundTripPil ==
    \E u \in RoundTripInputs :
        /\ Idle
        /\ op' = "round_trip_pil"
        /\ args' = [img |-> u, original |-> OriginalBytes(u)]
        /\ LET e == image_to_base64(u)
               d == base64_to_pil(e.value)
           IN  IF e.kind = "raise"
               THEN result' = e /\ reported' = <<>>
               ELSE result' = d.r /\ reported' = d.reported
        /\ sent' = <<>>

\* The caller has rendered (or printed) the result; everything the call
\* built is discarded.
Discard ==
    /\ ~Idle
    /\ op' = "none"
    /\ args' = EmptyDict
    /\ result' = NoneResult
    /\ sent' = <<>>
    /\ reported' = <<>>

Next ==
    \/ Converse
    \/ Summarize
    \/ Sentiment
    \/ AnswerQuestion
    \/ GenerateImage
    \/ NovaUpdateImage
    \/ UpdateImagePipeline
    \/ CaptionImage
    \/ ValidateImage
    \/ RoundTripBytes
    \/ RoundTripPil
    \/ Discard

Spec == Init /\ [][Next]_vars

(***************************************************************************)
(* Properties.                                                             *)
(***************************************************************************)
TextOps == {"converse", "summarize", "sentiment", "qa"}
ImageOps == {"generate_image", "nova_update_image", "update_image_pipeline",
             "caption_image", "validate_image"}

\* the remote endpoint was invoked during the call and the invocation raised
RemoteCallFailed ==
    /\ HasKey(args, "remote")
    /\ sent # <<>>
    /\ args.remote.kind = "raise"

\* C1: a converse call whose model identifier is outside model_ids fails
\* with the allow-list error (ValueError) and sends nothing to the endpoint.
C1_UnknownModelRejected ==
    (op = "converse" /\ args.model_id \notin model_ids)
        => (result = Raise("ValueError") /\ sent = <<>>)

EmptyInputCall ==
    \/ op \in {"summarize", "sentiment"} /\ args.text = ""
    \/ op = "qa" /\ (args.question = "" \/ args.text = "")

\* C2 as stated: every text operation called with an empty input returns ""
\* or "{}" and sends nothing to the endpoint.
C2_EmptyInputReturnsEmpty ==
    EmptyInputCall
        => (result.kind = "return" /\ result.value \in {"", "{}"} /\ sent = <<>>)

\* C2 as amended: on an empty input summarize returns "", analyze_sentiment
\* returns "{}" and answer_question returns the fixed message
\* "Invalid input: Question and text are required."; none of them sends
\* anything to the endpoint.
C2_EmptyInputShortCircuit ==
    /\ (op = "summarize" /\ args.text = "") => (result = Return("") /\ sent = <<>>)
    /\ (op = "sentiment" /\ args.text = "") => (result = Return("{}") /\ sent = <<>>)
    /\ (op = "qa" /\ (args.question = "" \/ args.text = ""))
          => (result = Return("Invalid input: Question and text are required.")
              /\ sent = <<>>)

C2_Witness ==
    /\ op = "qa"
    /\ args.question = ""
    /\ args.text # ""
    /\ args.remote.kind = "return"
    /\ result.kind = "return"
    /\ sent = <<>>

\* C3: an image edit called with a similarity strength outside [0.2, 1.0]
\* returns no image and sends nothing to the endpoint.
C3_OutOfRangeSimilarityRejected ==
    (/\ op \in {"nova_update_image", "update_image_pipeline"}
     /\ (args.similarity_strength < 2 \/ args.similarity_strength > 10))
        => (result.kind # "return" /\ sent = <<>>)

\* C4 as stated: no adapter operation lets an exception reach its caller.
C4_NoOperationRaises == result.kind # "raise"

\* the answer decodes to a dict with a non-empty list under `key`
HasList(remote, key) ==
    /\ remote.kind = "return"
    /\ HasKey(remote.value, "body")
    /\ remote.value.body.json
    /\ HasKey(remote.value.body.value, key)
    /\ Len(remote.value.body.value[key]) > 0

\* C4 as amended: the image operations (generate_image, edit_image,
\* caption_image, validate_image) never let an exception reach the caller:
\* when the client, the remote call or the decoding of the response fails
\* they report the error and return None (caption_image: the string "Error
\* generating description").  converse and the text operations built on it
\* print the error and re-raise the exception to their caller.
C4_ImageOpsReturnTextOpsReraise ==
    /\ op \in ImageOps => result.kind # "raise"
    /\ (op \in {"generate_image", "nova_update_image"}
          /\ ~HasList(args.remote, "images"))
          => (result = NoneResult /\ reported # <<>>)
    /\ (op = "caption_image" /\ ~HasList(args.remote, "content"))
          => (result = Return("Error generating description") /\ reported # <<>>)
    /\ (op \in TextOps /\ RemoteCallFailed) => result = args.remote
    /\ (op \in TextOps /\ result.kind = "raise" /\ sent # <<>>)
          => reported = <<"Error generating conversation">>

C4_Witness ==
    /\ op = "generate_image"
    /\ args.remote = Raise("ConnectionError")
    /\ sent # <<>>
    /\ result = NoneResult
    /\ reported = <<"Unexpected error">>

\* the content list of a caption answer that decoded to a dict with one
CaptionAnswered ==
    /\ op = "caption_image"
    /\ args.remote.kind = "return"
    /\ HasKey(args.remote.value, "body")
    /\ args.remote.value.body.json
    /\ HasKey(args.remote.value.body.value, "content")

CaptionContent == args.remote.value.body.value.content

\* C5: caption_image returns the first text segment of the answer, and the
\* default "No description available" when the answer has no text content
\* (an empty content list, or a first part without text).
C5_CaptionFirstTextOrDefault ==
    CaptionAnswered
        => result = IF Len(CaptionContent) > 0 /\ HasKey(CaptionContent[1], "text")
                    THEN Return(CaptionContent[1].text)
                    ELSE Return("No description available")

\* the first text segment of a converse answer, "" when the answer has none
ExpectedConverseText(response) ==
    IF /\ HasKey(response, "output")
       /\ HasKey(response.output, "message")
       /\ HasKey(response.output.message, "content")
       /\ Len(response.output.message.content) > 0
       /\ HasKey(response.output.message.content[1], "text")
    THEN response.output.message.content[1].text
    ELSE ""

\* C6: converse with an allowed model and a remote call that returned gives
\* back the first text segment of the output message, and "" for every
\* answer without one (missing output, message or content, an empty content
\* list, a first part without text).
C6_ConverseFirstTextOrEmpty ==
    (op = "converse" /\ args.model_id \in model_ids /\ args.remote.kind = "return")
        => result = Return(ExpectedConverseText(args.remote.value))

\* how a report classifies the failure it reports
ErrorKind(report) ==
    CASE report \in {"AWS API Error", "Error calling Bedrock"} -> "ProviderError"
      [] report = "Unexpected error" -> "UnexpectedError"
      [] OTHER -> "Unclassified"

\* C7 as stated: in generate_image and edit_image a remote call that raises
\* a client error is reported as ProviderError and any other failure as
\* UnexpectedError.
C7_BothClassifyFailures ==
    (op \in {"generate_image", "nova_update_image"} /\ RemoteCallFailed)
        => /\ Len(reported) = 1
           /\ ErrorKind(reported[1]) = IF args.remote.exc = "ClientError"
                                       THEN "ProviderError" ELSE "UnexpectedError"

\* C7 as amended: generate_image reports a remote call that raises a client
\* error as ProviderError ("AWS API Error") and every other failure as
\* UnexpectedError ("Unexpected error"); edit_image reports every failure,
\* client error or not, with the one message "Error generating image".
C7_GenerateClassifiesEditDoesNot ==
    /\ (op = "generate_image" /\ RemoteCallFailed)
          => reported = IF args.remote.exc = "ClientError"
                        THEN <<"AWS API Error">> ELSE <<"Unexpected error">>
    /\ (op = "generate_image" /\ ~RemoteCallFailed /\ result = NoneResult)
          => reported = <<"Unexpected error">>
    /\ (op = "nova_update_image" /\ result = NoneResult)
          => reported = <<"Error generating image">>

C7_Witness ==
    /\ op = "generate_image"
    /\ args.remote = Raise("ClientError")
    /\ reported = <<"AWS API Error">>
    /\ result = NoneResult

\* C8: validate_image returns no image for any upload longer than
\* MAX_IMAGE_SIZE bytes, whatever its container, and sends nothing.
C8_OversizeRejectedLocally ==
    (op = "validate_image" /\ args.image_file.size > 5 * 1024 * 1024)
        => (result = NoneResult /\ sent = <<>>)

C8_Witness ==
    /\ op = "validate_image"
    /\ args.image_file.size = 5 * 1024 * 1024 + 1
    /\ args.image_file.magic = PNG_MAGIC
    /\ result = NoneResult
    /\ reported = <<"Image size exceeds limit">>

\* C9: validate_image returns an image only if its container is PNG or
\* JPEG; an upload of any other container, or of none that can be
\* identified, gets no image even when it is within the size limit.
C9_UnsupportedFormatRejected ==
    op = "validate_image"
        => /\ (args.image_file.magic \notin {PNG_MAGIC, JPEG_MAGIC})
                 => result = NoneResult
           /\ result.kind = "return"
                 => result.value.format \in {"PNG", "JPEG", "JPG"}

C9_Witness ==
    /\ op = "validate_image"
    /\ args.image_file.magic = GIF_MAGIC
    /\ args.image_file.size <= 5 * 1024 * 1024
    /\ result = NoneResult
    /\ reported = <<"Unsupported image format">>

ImagesAnswered ==
    /\ op = "generate_image"
    /\ args.remote.kind = "return"
    /\ HasKey(args.remote.value, "body")
    /\ args.remote.value.body.json
    /\ HasKey(args.remote.value.body.value, "images")
    /\ Len(args.remote.value.body.value.images) > 0

\* C10: generate_image sends one TEXT_IMAGE request that carries the prompt,
\* height, width, guidance scale and seed it was given and numberOfImages 1,
\* and when the answer's images list is not empty it returns the first
\* element of that list unchanged.
C10_GenerateSendsPayloadReturnsFirst ==
    /\ (op = "generate_image" /\ args.remote.kind # "noclient")
          => /\ Len(sent) = 1
             /\ sent[1].api = "invoke_model"
             /\ sent[1].modelId = "amazon.nova-canvas-v1:0"
             /\ sent[1].body =
                  [taskType |-> "TEXT_IMAGE",
                   textToImageParams |-> [text |-> args.text],
                   imageGenerationConfig |->
                      [numberOfImages |-> 1, height |-> args.height,
                       width |-> args.width, cfgScale |-> args.cfg_scale,
                       seed |-> args.seed]]
    /\ ImagesAnswered
          => result = Return(args.remote.value.body.value.images[1])

C10_Witness ==
    /\ ImagesAnswered
    /\ args.height = 1024
    /\ args.width = 768
    /\ Len(args.remote.value.body.value.images) = 2
    /\ args.remote.value.body.value.images[1] = B64_PNG
    /\ args.remote.value.body.value.images[2] # B64_PNG
    /\ result = Return(B64_PNG)

\* C11: no adapter operation invokes the remote endpoint more than once in
\* a call, and a call whose remote invocation failed reports that failure
\* exactly once and invokes nothing after it.
C11_NoRetry ==
    /\ Len(sent) <= 1
    /\ RemoteCallFailed => Len(reported) = 1

C11_Witness ==
    /\ op = "update_image_pipeline"
    /\ args.remote = Raise("ClientError")
    /\ Len(sent) = 1
    /\ reported = <<"Error generating image">>
    /\ result = NoneResult

C13_SentSizesAndScaleInRange ==
    (op = "generate_image" /\ sent # <<>>)
        => LET c == sent[1].body.imageGenerationConfig
           IN  /\ c.height \in {512, 768, 1024}
               /\ c.width \in {512, 768, 1024}
               /\ c.cfgScale >= 10
               /\ c.cfgScale <= 150

====
